---- MODULE Spec2Model ----
\* A model of pipeline.py: the rent time-series builder (prepare_zillow_timeseries),
\* the per-ZIP linear trend forecaster (run_forecast) and the batch run (main).
\*
\* Tables (pandas DataFrames) are records [cols, rows]: cols is the sequence of
\* column labels, rows the sequence of rows, each a sequence of cells aligned
\* with cols. A label or a text cell is a sequence of one-character strings, so
\* that substring tests and date parsing work on the text itself. A missing
\* value (NaN, NaT) is the empty sequence; a number v read from a file is <<v>>;
\* a timestamp is <<year, month, day>>; a computed real is a reduced fraction
\* <<numerator, denominator>>. ZIP codes are plain integers.
EXTENDS Integers, Sequences, FiniteSets, TLC

VARIABLES
    pc,           \* position of the run
    zillow,       \* the rent table held by the caller
    income,       \* the income table
    rent_burden,  \* the rent-burden table
    merged,       \* what clean_and_merge returned
    long_df,      \* what prepare_zillow_timeseries returned
    forecast_df,  \* what run_forecast returned
    files,        \* the outputs on disk: name -> table, or Absent
    min_months,   \* argument of prepare_zillow_timeseries
    years,        \* argument of run_forecast
    calls,        \* the stages invoked so far, each with the table it was given
    fit_calls,    \* the sample counts model.fit was called with
    raw           \* the files under raw_data/

vars == <<pc, zillow, income, rent_burden, merged, long_df, forecast_df, files,
          min_months, years, calls, fit_calls, raw>>

-----------------------------------------------------------------------------
\* Program constants

MinHistory == 24
MonthsPerYear == 12
DefaultMinMonths == 12
DefaultYears == 5
FirstDateColumn == 9

-----------------------------------------------------------------------------
\* Text

ZIP == <<"Z", "I", "P">>
DATE == <<"d", "a", "t", "e">>
RENT == <<"r", "e", "n", "t">>
YEAR == <<"y", "e", "a", "r">>
MONTH == <<"m", "o", "n", "t", "h">>
FORECAST_RENT == <<"f", "o", "r", "e", "c", "a", "s", "t", "_", "r", "e", "n", "t">>
RegionID == <<"R", "e", "g", "i", "o", "n", "I", "D">>
SizeRank == <<"S", "i", "z", "e", "R", "a", "n", "k">>
RegionName == <<"R", "e", "g", "i", "o", "n", "N", "a", "m", "e">>
RegionType == <<"R", "e", "g", "i", "o", "n", "T", "y", "p", "e">>
StateName == <<"S", "t", "a", "t", "e", "N", "a", "m", "e">>
State == <<"S", "t", "a", "t", "e">>
City == <<"C", "i", "t", "y">>
Metro == <<"M", "e", "t", "r", "o">>
CountyName == <<"C", "o", "u", "n", "t", "y", "N", "a", "m", "e">>
MedianRent == <<"M", "e", "d", "i", "a", "n", "R", "e", "n", "t">>
NAME == <<"N", "A", "M", "E">>
GEO_ID == <<"G", "E", "O", "_", "I", "D">>
HouseholdsMedianIncome ==
    <<"H", "o", "u", "s", "e", "h", "o", "l", "d", "s", " ", "-", " ", "M", "e", "d", "i",
      "a", "n", " ", "i", "n", "c", "o", "m", "e", " ", "(", "d", "o", "l", "l", "a", "r",
      "s", ")">>
MonthlyMedianIncome ==
    <<"M", "o", "n", "t", "h", "l", "y", "M", "e", "d", "i", "a", "n", "I", "n", "c", "o",
      "m", "e">>
rent_to_income == <<"r", "e", "n", "t", "_", "t", "o", "_", "i", "n", "c", "o", "m", "e">>
ZCTA5 == <<"Z", "C", "T", "A", "5", " ">>
B25070 == <<"B", "2", "5", "0", "7", "0", "_">>
TotalHouseholds ==
    <<"T", "o", "t", "a", "l", "H", "o", "u", "s", "e", "h", "o", "l", "d", "s">>
HH_RentLT10Pct == <<"H", "H", "_", "R", "e", "n", "t", "L", "T", "1", "0", "P", "c", "t">>
HH_Rent10to14Pct ==
    <<"H", "H", "_", "R", "e", "n", "t", "1", "0", "t", "o", "1", "4", "P", "c", "t">>
HH_Rent15to19Pct ==
    <<"H", "H", "_", "R", "e", "n", "t", "1", "5", "t", "o", "1", "9", "P", "c", "t">>
HH_Rent20to24Pct ==
    <<"H", "H", "_", "R", "e", "n", "t", "2", "0", "t", "o", "2", "4", "P", "c", "t">>
HH_Rent25to29Pct ==
    <<"H", "H", "_", "R", "e", "n", "t", "2", "5", "t", "o", "2", "9", "P", "c", "t">>
HH_Rent30to34Pct ==
    <<"H", "H", "_", "R", "e", "n", "t", "3", "0", "t", "o", "3", "4", "P", "c", "t">>
HH_Rent35to39Pct ==
    <<"H", "H", "_", "R", "e", "n", "t", "3", "5", "t", "o", "3", "9", "P", "c", "t">>
HH_Rent40to49Pct ==
    <<"H", "H", "_", "R", "e", "n", "t", "4", "0", "t", "o", "4", "9", "P", "c", "t">>
HH_Rent50PlusPct ==
    <<"H", "H", "_", "R", "e", "n", "t", "5", "0", "P", "l", "u", "s", "P", "c", "t">>
HH_RentNotComputed ==
    <<"H", "H", "_", "R", "e", "n", "t", "N", "o", "t", "C", "o", "m", "p", "u", "t", "e",
      "d">>
HH_ == <<"H", "H", "_">>
Pct_ == <<"P", "c", "t", "_">>
UpperCase ==
    <<"A", "B", "C", "D", "E", "F", "G", "H", "I", "J", "K", "L", "M", "N", "O", "P", "Q",
      "R", "S", "T", "U", "V", "W", "X", "Y", "Z">>
LowerCase ==
    <<"a", "b", "c", "d", "e", "f", "g", "h", "i", "j", "k", "l", "m", "n", "o", "p", "q",
      "r", "s", "t", "u", "v", "w", "x", "y", "z">>
seattle == <<"s", "e", "a", "t", "t", "l", "e">>

NaN == <<>>
notna(v) == v # NaN

Digits == <<"0", "1", "2", "3", "4", "5", "6", "7", "8", "9">>
IsDigit(ch) == \E i \in 1..10 : Digits[i] = ch
DigitVal(ch) == (CHOOSE i \in 1..10 : Digits[i] = ch) - 1

\* n as w decimal digits
DigitsOf(n, w) == [i \in 1..w |-> Digits[((n \div (10 ^ (w - i))) % 10) + 1]]

\* Python's `pat in c` on strings.
Contains(c, pat) ==
    \E i \in 1..(Len(c) - Len(pat) + 1) : SubSeq(c, i, i + Len(pat) - 1) = pat

\* any(x in c for x in ["/", "-", "20"])
IsDateCol(c) ==
    \/ Contains(c, <<"/">>)
    \/ Contains(c, <<"-">>)
    \/ Contains(c, <<"2", "0">>)

-----------------------------------------------------------------------------
\* Calendar

IsLeap(y) == (y % 4 = 0 /\ y % 100 # 0) \/ y % 400 = 0

DaysInMonth(y, m) ==
    IF m = 2 THEN (IF IsLeap(y) THEN 29 ELSE 28)
    ELSE IF m \in {4, 6, 9, 11} THEN 30 ELSE 31

Num(c) == IF Len(c) = 0 THEN 0
          ELSE LET F[i \in 0..Len(c)] == IF i = 0 THEN 0 ELSE 10 * F[i - 1] + DigitVal(c[i])
               IN F[Len(c)]

AllDigits(c) == \A i \in 1..Len(c) : IsDigit(c[i])

ValidDate(y, m, d) == m \in 1..12 /\ d \in 1..DaysInMonth(y, m)

\* pd.to_datetime(label, errors="coerce") on the labels the tables here carry:
\* ISO "YYYY-MM-DD" and "YYYY-MM" parse, any other text is NaT.
to_datetime(c) ==
    IF /\ Len(c) = 10 /\ c[5] = "-" /\ c[8] = "-"
       /\ AllDigits(SubSeq(c, 1, 4)) /\ AllDigits(SubSeq(c, 6, 7))
       /\ AllDigits(SubSeq(c, 9, 10))
       /\ ValidDate(Num(SubSeq(c, 1, 4)), Num(SubSeq(c, 6, 7)), Num(SubSeq(c, 9, 10)))
    THEN <<Num(SubSeq(c, 1, 4)), Num(SubSeq(c, 6, 7)), Num(SubSeq(c, 9, 10))>>
    ELSE IF /\ Len(c) = 7 /\ c[5] = "-"
            /\ AllDigits(SubSeq(c, 1, 4)) /\ AllDigits(SubSeq(c, 6, 7))
            /\ Num(SubSeq(c, 6, 7)) \in 1..12
    THEN <<Num(SubSeq(c, 1, 4)), Num(SubSeq(c, 6, 7)), 1>>
    ELSE NaN

\* Timestamps order by year, then month, then day.
DateLess(a, b) ==
    \/ a[1] < b[1]
    \/ a[1] = b[1] /\ a[2] < b[2]
    \/ a[1] = b[1] /\ a[2] = b[2] /\ a[3] < b[3]

\* The month rolled over without carrying into the year.
MonthBegin_same_year(ts) == <<ts[1], (ts[2] % 12) + 1, 1>>

\* ts + pd.offsets.MonthBegin(): the first day of the following month.
MonthBegin(ts) == IF ts[2] = 12 THEN <<ts[1] + 1, 1, 1>> ELSE <<ts[1], ts[2] + 1, 1>>

\* pd.date_range(start, periods, freq="MS") from a month start: its k-th entry (k from 0).
date_range(start, k) ==
    LET idx == start[1] * 12 + (start[2] - 1) + k
    IN  <<idx \div 12, (idx % 12) + 1, 1>>

-----------------------------------------------------------------------------
\* Tables

\* The sequence f, enumerated once.
List(f) == SubSeq(f, 1, Len(f))

Table(c, r) == [cols |-> c, rows |-> List(r)]
EmptyTable == Table(<<>>, <<>>)

HasCol(df, c) == \E i \in 1..Len(df.cols) : df.cols[i] = c
Col(df, c) == CHOOSE i \in 1..Len(df.cols) : df.cols[i] = c
Cell(df, r, c) == r[Col(df, c)]

Range(s) == {s[i] : i \in 1..Len(s)}

-----------------------------------------------------------------------------
\* prepare_zillow_timeseries

\* date_cols = [c for c in zillow_df.columns if any(...)]
date_cols(df) == SelectSeq(df.cols, IsDateCol)

\* zillow_df.melt(id_vars=["ZIP"], value_vars=..., var_name="date", value_name="rent"):
\* one row per (value column, source row), column by column in value_vars order,
\* and within a column in the source's row order.
melt(df, value_vars) ==
    LET nr == Len(df.rows)
        nv == Len(value_vars)
    IN  Table(<<ZIP, DATE, RENT>>,
              [k \in 1..(nr * nv) |->
                  LET v == value_vars[((k - 1) \div nr) + 1]
                      r == df.rows[((k - 1) % nr) + 1]
                  IN  <<Cell(df, r, ZIP), v, Cell(df, r, v)>>])

\* long_df["date"] = pd.to_datetime(long_df["date"], errors="coerce")
parse_dates(df) ==
    Table(df.cols, [k \in 1..Len(df.rows) |->
                       [df.rows[k] EXCEPT ![Col(df, DATE)] = to_datetime(@)]])

\* dropna() without the subset: a row with any missing cell goes.
dropna_any(df) ==
    LET Keep(r) == notna(Cell(df, r, DATE)) /\ notna(Cell(df, r, RENT))
    IN  Table(df.cols, SelectSeq(df.rows, Keep))

\* long_df.dropna(subset=["date"])
dropna_date(df) ==
    LET Keep(r) == notna(Cell(df, r, DATE))
    IN  Table(df.cols, SelectSeq(df.rows, Keep))

\* long_df["year"] = long_df["date"].dt.year; long_df["month"] = long_df["date"].dt.month
add_year_month(df) ==
    Table(df.cols \o <<YEAR, MONTH>>,
          [k \in 1..Len(df.rows) |->
              df.rows[k] \o <<Cell(df, df.rows[k], DATE)[1], Cell(df, df.rows[k], DATE)[2]>>])

\* The rows of one ZIP, in the table's row order (a groupby group).
group_rows(df, z) ==
    LET In(r) == Cell(df, r, ZIP) = z
    IN  SelectSeq(df.rows, In)

\* g["rent"].notna().sum()
notna_count(df, z) ==
    LET Valid(r) == Cell(df, r, ZIP) = z /\ notna(Cell(df, r, RENT))
    IN  Len(SelectSeq(df.rows, Valid))

\* The filter with > in place of >=.
filter_min_months_strict(df, mm) ==
    LET Keep(r) == notna_count(df, Cell(df, r, ZIP)) > mm
    IN  Table(df.cols, SelectSeq(df.rows, Keep))

\* long_df.groupby("ZIP").filter(lambda g: g["rent"].notna().sum() >= min_months)
filter_min_months(df, mm) ==
    LET Keep(r) == notna_count(df, Cell(df, r, ZIP)) >= mm
    IN  Table(df.cols, SelectSeq(df.rows, Keep))

\* s.ffill(): a missing entry takes the last non-missing entry before it.
ffill(s) ==
    [i \in 1..Len(s) |->
        IF notna(s[i]) THEN s[i]
        ELSE LET prior == {j \in 1..(i - 1) : notna(s[j])}
             IN  IF prior = {} THEN NaN
                 ELSE s[CHOOSE j \in prior : \A h \in prior : h <= j]]

\* s.bfill(): a missing entry takes the first non-missing entry after it.
bfill(s) ==
    [i \in 1..Len(s) |->
        IF notna(s[i]) THEN s[i]
        ELSE LET later == {j \in (i + 1)..Len(s) : notna(s[j])}
             IN  IF later = {} THEN NaN
                 ELSE s[CHOOSE j \in later : \A h \in later : j <= h]]

\* The gap fill with the backward pass left out: s.ffill() alone.
fill_gaps_forward_only(df) ==
    LET keys == {Cell(df, df.rows[k], ZIP) : k \in 1..Len(df.rows)}
        rentOf(z) == LET g == group_rows(df, z) IN [i \in 1..Len(g) |-> Cell(df, g[i], RENT)]
        filled == [z \in keys |-> List(ffill(rentOf(z)))]
        rank(k) == Cardinality({j \in 1..k : Cell(df, df.rows[j], ZIP) = Cell(df, df.rows[k], ZIP)})
    IN  Table(df.cols,
              [k \in 1..Len(df.rows) |->
                  [df.rows[k] EXCEPT ![Col(df, RENT)] = filled[Cell(df, df.rows[k], ZIP)][rank(k)]]])

\* long_df["rent"] = long_df.groupby("ZIP")["rent"].transform(lambda s: s.ffill().bfill()):
\* each ZIP's rents are filled along the table's current row order.
fill_gaps(df) ==
    LET keys == {Cell(df, df.rows[k], ZIP) : k \in 1..Len(df.rows)}
        rentOf(z) == LET g == group_rows(df, z) IN [i \in 1..Len(g) |-> Cell(df, g[i], RENT)]
        filled == [z \in keys |-> List(bfill(List(ffill(rentOf(z)))))]
        \* the rank of row k inside its ZIP group
        rank(k) == Cardinality({j \in 1..k : Cell(df, df.rows[j], ZIP) = Cell(df, df.rows[k], ZIP)})
    IN  Table(df.cols,
              [k \in 1..Len(df.rows) |->
                  [df.rows[k] EXCEPT ![Col(df, RENT)] = filled[Cell(df, df.rows[k], ZIP)][rank(k)]]])

\* Row a sorts strictly before row b by ["ZIP", "date"].
row_less(df, a, b) ==
    \/ Cell(df, a, ZIP) < Cell(df, b, ZIP)
    \/ Cell(df, a, ZIP) = Cell(df, b, ZIP) /\ DateLess(Cell(df, a, DATE), Cell(df, b, DATE))

\* long_df.sort_values(["ZIP", "date"]).reset_index(drop=True): a stable sort; row k
\* goes behind the rows that sort before it and the equal rows that precede it.
sort_values(df) ==
    LET n == Len(df.rows)
        pos == List([k \in 1..n |->
                   1 + Cardinality({j \in 1..n :
                          \/ row_less(df, df.rows[j], df.rows[k])
                          \/ j < k /\ ~row_less(df, df.rows[k], df.rows[j])})])
    IN  Table(df.cols, [p \in 1..n |-> df.rows[CHOOSE k \in 1..n : pos[k] = p]])

\* zillow_df.melt(id_vars=["ZIP"], ...) raises KeyError when there is no ZIP column.
prepare_zillow_timeseries_raises(zillow_df) == ~HasCol(zillow_df, ZIP)

\* The long form before thresholding and gap-filling (lines 162-174).
long_form(zillow_df) ==
    add_year_month(dropna_date(parse_dates(melt(zillow_df, date_cols(zillow_df)))))

prepare_zillow_timeseries(zillow_df, mm) ==
    sort_values(fill_gaps(filter_min_months(long_form(zillow_df), mm)))

-----------------------------------------------------------------------------
\* Reals, as reduced fractions <<numerator, denominator>> with a positive denominator

RECURSIVE GCD(_, _)
GCD(a, b) == IF b = 0 THEN a ELSE GCD(b, a % b)

Abs(x) == IF x < 0 THEN -x ELSE x

Frac(n, d) ==
    LET g == GCD(Abs(n), Abs(d))
        sg == IF d < 0 THEN -1 ELSE 1
    IN  <<(sg * n) \div g, (sg * d) \div g>>

LCM(a, b) == (a \div GCD(a, b)) * b

\* Sums go over the least common denominator and products cancel crosswise first,
\* which keeps every intermediate number small.
FracAdd(x, y) ==
    LET l == LCM(x[2], y[2])
    IN  Frac(x[1] * (l \div x[2]) + y[1] * (l \div y[2]), l)
FracSub(x, y) == FracAdd(x, <<-y[1], y[2]>>)
FracMul(x, y) ==
    LET a == Frac(x[1], y[2])
        b == Frac(y[1], x[2])
    IN  Frac(a[1] * b[1], a[2] * b[2])
Int2Frac(i) == <<i, 1>>

\* The sum of f[1..n]
SumTo(f, n) ==
    LET S[i \in 0..n] == IF i = 0 THEN 0 ELSE S[i - 1] + f[i]
    IN  S[n]

-----------------------------------------------------------------------------
\* run_forecast

\* df.groupby("ZIP") yields the groups in ascending key order.
RECURSIVE sorted_keys(_)
sorted_keys(S) ==
    IF S = {} THEN <<>>
    ELSE LET lo == CHOOSE z \in S : \A w \in S : z <= w
         IN  <<lo>> \o sorted_keys(S \ {lo})

group_keys(df) == sorted_keys({Cell(df, df.rows[k], ZIP) : k \in 1..Len(df.rows)})

\* The gate with the inclusion threshold (12) in place of 24.
eligible_min_months(group) == ~(Len(group) < DefaultMinMonths)

\* if group.shape[0] < 24: continue
eligible(group) == ~(Len(group) < MinHistory)

eligible_keys(df) ==
    LET Ok(z) == eligible(group_rows(df, z))
    IN  SelectSeq(group_keys(df), Ok)

\* LinearRegression().fit(X, y) with X = t = 0..n-1: the least-squares line
\* [slope, intercept]; with a single time index the minimum-norm solution has slope 0.
LinearRegression_fit(y) ==
    LET n == Len(y)
        St == SumTo([i \in 1..n |-> i - 1], n)
        Stt == SumTo([i \in 1..n |-> (i - 1) * (i - 1)], n)
        Sy == SumTo(y, n)
        Sty == SumTo([i \in 1..n |-> (i - 1) * y[i]], n)
        den == n * Stt - St * St
        slope == IF den = 0 THEN Int2Frac(0) ELSE Frac(n * Sty - St * Sy, den)
        \* intercept = mean(y) - slope * mean(t)
        intercept == FracSub(Frac(Sy, n), FracMul(slope, Frac(St, n)))
    IN  [slope |-> slope, intercept |-> intercept]

\* The prediction of a model fitted without an intercept term.
predict_no_intercept(model, t) == FracMul(model.slope, Int2Frac(t))

\* model.predict at time index t
predict(model, t) == FracAdd(model.intercept, FracMul(model.slope, Int2Frac(t)))

\* group["date"].max()
max_date(df, group) ==
    LET ds == {Cell(df, group[i], DATE) : i \in 1..Len(group)}
    IN  CHOOSE d \in ds : \A e \in ds : ~DateLess(d, e)

\* The rows appended to `forecasts` for one eligible group (lines 195-213).
forecast_rows(df, z, yrs) ==
    LET group == group_rows(df, z)
        n == Len(group)
        y == [i \in 1..n |-> Cell(df, group[i], RENT)[1]]
        model == LinearRegression_fit(y)
        start == MonthBegin(max_date(df, group))
    IN  [k \in 1..(yrs * MonthsPerYear) |->
            <<z, date_range(start, k - 1), predict(model, n + k - 1)>>]

RECURSIVE concat_forecasts(_, _, _)
concat_forecasts(df, keys, yrs) ==
    IF keys = <<>> THEN <<>>
    ELSE forecast_rows(df, keys[1], yrs) \o concat_forecasts(df, Tail(keys), yrs)

\* What stops run_forecast: no ZIP column to group by (KeyError); for a group that
\* passes the length gate, no rent column (KeyError), a missing rent handed to
\* model.fit (ValueError), or no date column (KeyError). "none" when it returns.
run_forecast_error(df) ==
    IF ~HasCol(df, ZIP) THEN "KeyError"
    ELSE LET keys == eligible_keys(df)
             HasNaN(z) == LET g == group_rows(df, z)
                          IN  \E i \in 1..Len(g) : ~notna(Cell(df, g[i], RENT))
         IN  IF keys = <<>> THEN "none"
             ELSE IF ~HasCol(df, RENT) THEN "KeyError"
             ELSE IF HasNaN(keys[1]) THEN "ValueError"
             ELSE IF ~HasCol(df, DATE) THEN "KeyError"
             ELSE IF \E j \in 1..Len(keys) : HasNaN(keys[j]) THEN "ValueError"
             ELSE "none"

\* forecast_df = pd.DataFrame(forecasts): no columns at all when nothing was forecast.
run_forecast(df, yrs) ==
    LET rows == concat_forecasts(df, eligible_keys(df), yrs)
    IN  IF rows = <<>> THEN EmptyTable ELSE Table(<<ZIP, DATE, FORECAST_RENT>>, rows)

\* The sample counts of the model.fit calls run_forecast makes, in order.
run_forecast_fits(df) ==
    LET keys == eligible_keys(df)
    IN  [j \in 1..Len(keys) |-> Len(group_rows(df, keys[j]))]

-----------------------------------------------------------------------------
\* Outputs on disk

OutputNames == {"merged_dataset.csv", "affordability_dashboard.csv", "housing_data",
                "rent_forecast.csv"}

\* A file is <<>> while it does not exist and <<table>> once written.
Absent == <<>>
NoFiles == [f \in OutputNames |-> Absent]

\* df.to_csv(path) and df.to_sql(name, if_exists="replace"): the whole content is replaced.
write(fs, name, df) == [fs EXCEPT ![name] = <<df>>]

call(stage, df) == [stage |-> stage, arg |-> df]

-----------------------------------------------------------------------------
\* Input tables of the library specification

MaxRows == 2
MaxMinMonths == 3
MaxLead == 2

ZipCodes == {98101, 98102}

\* "YYYY-MM-DD", the form of a Zillow period column
IsoDay(ts) == DigitsOf(ts[1], 4) \o <<"-">> \o DigitsOf(ts[2], 2) \o <<"-">> \o DigitsOf(ts[3], 2)
\* "YYYY-MM"
IsoMonth(ts) == DigitsOf(ts[1], 4) \o <<"-">> \o DigitsOf(ts[2], 2)

MonthEnd(y, m) == <<y, m, DaysInMonth(y, m)>>

Jan == IsoDay(MonthEnd(2015, 1))
Feb == IsoDay(MonthEnd(2015, 2))
Mar == IsoDay(MonthEnd(2015, 3))
MetroArea == <<"M", "e", "t", "r", "o", "-", "A", "r", "e", "a">>
Top20 == <<"T", "o", "p", "2", "0">>
MetroSeattle == <<"S", "e", "a", "t", "t", "l", "e", ",", " ", "W", "A">>
MetroSpokane == <<"S", "p", "o", "k", "a", "n", "e", ",", " ", "W", "A">>

\* Column layouts of the small tables: in and out of chronological order, with
\* columns the date pattern does not match (Metro) and columns it matches that
\* are no dates (Metro-Area, Top20).
Layouts ==
    { <<ZIP, Jan, Feb, Mar>>,
      <<ZIP, Mar, Jan, Feb>>,
      <<Metro, ZIP, Feb, MetroArea, Jan>>,
      <<ZIP, IsoMonth(<<2015, 12, 1>>), Top20, IsoMonth(<<2016, 1, 1>>)>>,
      <<ZIP, MetroArea>> }

\* A small wide table: n rows over a layout; row r has ZIP zs[r]; its cell under a
\* period column c is present exactly when c \in present[r], and every present
\* cell of the table has a value of its own.
SmallTable(layout, n, zs, present) ==
    Table(layout,
          [r \in 1..n |->
              [c \in 1..Len(layout) |->
                  IF layout[c] = ZIP THEN zs[r]
                  ELSE IF ~IsDateCol(layout[c]) THEN MetroSeattle
                  ELSE IF c \in present[r] \/ ~notna(to_datetime(layout[c]))
                       THEN <<(r - 1) * Len(layout) + c>>
                  ELSE NaN]])

SeriesLens == {12, 23, 24, 30}
StartMonths == {<<2015, 1>>, <<2015, 11>>}
Lines == {<<100, 5>>, <<40, 0>>}

\* The n period labels from month `start` on: month-end days ("YYYY-MM-DD") or
\* months ("YYYY-MM"), left to right in chronological or in reverse order.
PeriodLabels(start, n, byDay, reversed) ==
    [i \in 1..n |->
        LET k == IF reversed THEN n - i ELSE i - 1
            first == date_range(<<start[1], start[2], 1>>, k)
        IN  IF byDay THEN IsoDay(MonthEnd(first[1], first[2])) ELSE IsoMonth(first)]

\* A long-history wide table: n monthly columns; `copies` rows of ZIP 98101 with
\* rents line[1] + line[2]*t at month t, then one row of ZIP 98102 with the first
\* `lead` months missing and rent 60 + t after them.
SeriesTable(start, n, byDay, reversed, line, copies, lead) ==
    LET labels == PeriodLabels(start, n, byDay, reversed)
        t(i) == IF reversed THEN n - i ELSE i - 1
    IN  Table(<<ZIP>> \o labels,
              [r \in 1..(copies + 1) |->
                  IF r <= copies
                  THEN <<98101>> \o [i \in 1..n |-> <<line[1] + line[2] * t(i)>>]
                  ELSE <<98102>> \o [i \in 1..n |-> IF t(i) < lead THEN NaN ELSE <<60 + t(i)>>]])

-----------------------------------------------------------------------------
\* The library specification: a caller builds the series of a wide rent table
\* and forecasts from it.

InitSmall ==
    \E layout \in Layouts, n \in 0..MaxRows :
      \E zs \in [1..n -> ZipCodes],
         present \in [1..n -> SUBSET {c \in 1..Len(layout) : notna(to_datetime(layout[c]))}] :
        /\ zillow = SmallTable(layout, n, zs, present)
        /\ min_months \in 1..MaxMinMonths
        /\ years = 1

InitSeries ==
    \E start \in StartMonths, n \in SeriesLens, byDay \in BOOLEAN, reversed \in BOOLEAN,
       line \in Lines, copies \in {1, 2}, lead \in 0..MaxLead :
        /\ copies = 2 => n = 12
        /\ zillow = SeriesTable(start, n, byDay, reversed, line, copies, lead)
        /\ min_months \in {1, DefaultMinMonths}
        /\ years \in {1, DefaultYears}

InitRest ==
    /\ pc = "start"
    /\ income = EmptyTable
    /\ rent_burden = EmptyTable
    /\ merged = EmptyTable
    /\ long_df = EmptyTable
    /\ forecast_df = EmptyTable
    /\ files = NoFiles
    /\ calls = <<>>
    /\ fit_calls = <<>>
    /\ raw = [zillow |-> EmptyTable, income |-> EmptyTable, burden |-> EmptyTable]

\* long_df = prepare_zillow_timeseries(zillow, min_months)
call_prepare_zillow_timeseries ==
    /\ pc = "start"
    /\ calls' = Append(calls, call("prepare_zillow_timeseries", zillow))
    /\ IF prepare_zillow_timeseries_raises(zillow)
       THEN /\ pc' = "KeyError"
            /\ UNCHANGED long_df
       ELSE /\ pc' = "built"
            /\ long_df' = prepare_zillow_timeseries(zillow, min_months)
    /\ UNCHANGED <<zillow, income, rent_burden, merged, forecast_df, files, min_months,
                   years, fit_calls, raw>>

\* forecast_df = run_forecast(long_df, years), which also writes rent_forecast.csv
call_run_forecast ==
    /\ pc = "built"
    /\ calls' = Append(calls, call("run_forecast", long_df))
    /\ LET error == run_forecast_error(long_df)
           out == run_forecast(long_df, years)
       IN  IF error # "none"
           THEN /\ pc' = error
                /\ UNCHANGED <<forecast_df, files, fit_calls>>
           ELSE /\ pc' = "done"
                /\ forecast_df' = out
                /\ files' = write(files, "rent_forecast.csv", out)
                /\ fit_calls' = run_forecast_fits(long_df)
    /\ UNCHANGED <<zillow, income, rent_burden, merged, long_df, min_months, years, raw>>

NextCore == call_prepare_zillow_timeseries \/ call_run_forecast

\* Small tables of any shape, and long monthly histories.
InitCore == InitSmall /\ InitRest
InitLong == InitSeries /\ InitRest

SpecCore == InitCore /\ [][NextCore]_vars
SpecSeries == InitLong /\ [][NextCore]_vars

-----------------------------------------------------------------------------
\* Loaders. A table read from a file is the DataFrame pd.read_csv returns; the
\* cells that a loader converts itself (the income column, the NAME column, the
\* B25070 columns) hold the file's text.

Lower(ch) ==
    IF \E i \in 1..26 : UpperCase[i] = ch
    THEN LowerCase[CHOOSE i \in 1..26 : UpperCase[i] = ch]
    ELSE ch

\* df["Metro"].str.contains("Seattle", case=False, na=False)
contains_seattle(cell) == Contains(List([i \in 1..Len(cell) |-> Lower(cell[i])]), seattle)

\* df.rename(columns={from: to})
rename(df, from, to) ==
    Table([i \in 1..Len(df.cols) |-> IF df.cols[i] = from THEN to ELSE df.cols[i]], df.rows)

\* pd.to_numeric(cell, errors="coerce") on a text cell
to_numeric(cell) == IF Len(cell) > 0 /\ AllDigits(cell) THEN <<Num(cell)>> ELSE NaN

\* df[["c1", "c2", ...]]
select_cols(df, cs) ==
    Table(cs, [k \in 1..Len(df.rows) |-> [i \in 1..Len(cs) |-> Cell(df, df.rows[k], cs[i])]])

\* df[df["Metro"].str.contains(...)]
seattle_rows(df) ==
    LET Keep(r) == contains_seattle(Cell(df, r, Metro))
    IN  Table(df.cols, SelectSeq(df.rows, Keep))

load_zillow_rent_error(file) ==
    IF HasCol(rename(file, RegionName, ZIP), Metro) THEN "none" ELSE "KeyError"

load_zillow_rent(file) == seattle_rows(rename(file, RegionName, ZIP))

load_census_income_error(file) ==
    IF \A c \in {ZIP, Metro, HouseholdsMedianIncome} : HasCol(file, c) THEN "none" ELSE "KeyError"

load_census_income(file) ==
    LET df == select_cols(file, <<ZIP, Metro, HouseholdsMedianIncome>>)
        monthly(cell) == IF notna(to_numeric(cell)) THEN Frac(to_numeric(cell)[1], 12) ELSE NaN
        all == Table(<<ZIP, Metro, MonthlyMedianIncome>>,
                     [k \in 1..Len(df.rows) |->
                         <<df.rows[k][1], df.rows[k][2], monthly(df.rows[k][3])>>])
    IN  seattle_rows(all)

\* df["ZIP"].str.extract(r"ZCTA5 (\d{5})"): the five digits of the first match, or NaN
extract_zcta(cell) ==
    LET hits == {i \in 1..(Len(cell) - 10) :
                    /\ SubSeq(cell, i, i + 5) = ZCTA5
                    /\ AllDigits(SubSeq(cell, i + 6, i + 10))}
    IN  IF hits = {} THEN NaN
        ELSE LET i == CHOOSE h \in hits : \A g \in hits : h <= g
             IN  <<Num(SubSeq(cell, i + 6, i + 10))>>

\* "B25070_001E" ... "B25070_011E"
acs_code(i) == B25070 \o DigitsOf(i, 3) \o <<"E">>

RENT_BURDEN_RENAME ==
    <<TotalHouseholds, HH_RentLT10Pct, HH_Rent10to14Pct, HH_Rent15to19Pct, HH_Rent20to24Pct,
      HH_Rent25to29Pct, HH_Rent30to34Pct, HH_Rent35to39Pct, HH_Rent40to49Pct,
      HH_Rent50PlusPct, HH_RentNotComputed>>

\* df.rename(columns=RENT_BURDEN_RENAME)
rename_burden(df) ==
    Table([i \in 1..Len(df.cols) |->
              IF \E j \in 1..Len(RENT_BURDEN_RENAME) : df.cols[i] = acs_code(j)
              THEN RENT_BURDEN_RENAME[CHOOSE j \in 1..Len(RENT_BURDEN_RENAME) : df.cols[i] = acs_code(j)]
              ELSE df.cols[i]],
          df.rows)

StartsWith(c, pre) == Len(c) >= Len(pre) /\ SubSeq(c, 1, Len(pre)) = pre

\* df.filter(regex="^(ZIP|TotalHouseholds|HH_|Pct_)")
burden_column(c) == \E pre \in {ZIP, TotalHouseholds, HH_, Pct_} : StartsWith(c, pre)

load_census_rent_burden_error(file) ==
    IF ~HasCol(rename(file, NAME, ZIP), ZIP) THEN "KeyError"
    ELSE IF \E j \in 1..Len(RENT_BURDEN_RENAME) :
               ~HasCol(rename_burden(rename(file, NAME, ZIP)), RENT_BURDEN_RENAME[j])
         THEN "KeyError"
    ELSE "none"

load_census_rent_burden(file) ==
    LET named == rename(file, NAME, ZIP)
        zipped == Table(named.cols,
                        [k \in 1..Len(named.rows) |->
                            [named.rows[k] EXCEPT ![Col(named, ZIP)] = extract_zcta(@)]])
        Known(r) == notna(Cell(zipped, r, ZIP))
        \* dropna(subset=["ZIP"]) and astype(int)
        ints == Table(zipped.cols,
                      [k \in 1..Len(SelectSeq(zipped.rows, Known)) |->
                          [SelectSeq(zipped.rows, Known)[k] EXCEPT ![Col(zipped, ZIP)] = @[1]]])
        df == rename_burden(ints)
        IsCount(c) == \E j \in 1..Len(RENT_BURDEN_RENAME) : c = RENT_BURDEN_RENAME[j]
        numeric == Table(df.cols,
                         [k \in 1..Len(df.rows) |->
                             [i \in 1..Len(df.cols) |->
                                 IF IsCount(df.cols[i]) THEN to_numeric(df.rows[k][i])
                                 ELSE df.rows[k][i]]])
        Kept(c) == burden_column(c) /\ c # HH_RentNotComputed
    IN  select_cols(numeric, SelectSeq(numeric.cols, Kept))

-----------------------------------------------------------------------------
\* clean_and_merge

\* The numbers of a row, ascending.
sorted_numbers(cells) ==
    LET Known(v) == notna(v)
        vs == SelectSeq(cells, Known)
        n == Len(vs)
        pos == List([k \in 1..n |->
                   1 + Cardinality({j \in 1..n : vs[j][1] < vs[k][1] \/ (j < k /\ vs[j][1] = vs[k][1])})])
    IN  [p \in 1..n |-> vs[CHOOSE k \in 1..n : pos[k] = p][1]]

\* The median of a row's cells, missing ones skipped; NaN when none is left.
median(cells) ==
    LET vs == sorted_numbers(cells)
        n == Len(vs)
    IN  IF n = 0 THEN NaN
        ELSE IF n % 2 = 1 THEN Int2Frac(vs[(n + 1) \div 2])
        ELSE Frac(vs[n \div 2] + vs[(n \div 2) + 1], 2)

\* The caller's rent table after clean_and_merge ran lines 113-114 on it:
\* zillow["MedianRent"] = zillow[zillow.columns[9:]].median(axis=1) adds a column in place.
clean_and_merge_zillow(zillow_in) ==
    Table(zillow_in.cols \o <<MedianRent>>,
          [k \in 1..Len(zillow_in.rows) |->
              zillow_in.rows[k] \o
                  <<median(SubSeq(zillow_in.rows[k], FirstDateColumn + 1, Len(zillow_in.cols)))>>])

\* zillow[["ZIP", "MedianRent"]] raises KeyError without a ZIP column.
clean_and_merge_error(zillow_in) == IF HasCol(zillow_in, ZIP) THEN "none" ELSE "KeyError"

\* left.merge(right, on="ZIP", how="left"): every left row, in order, joined with each
\* right row of its ZIP (in the right table's order), or with NaNs when there is none.
merge_left(left, right) ==
    LET NotZip(c) == c # ZIP
        rcols == SelectSeq(right.cols, NotZip)
        rest(r) == [i \in 1..Len(rcols) |-> Cell(right, r, rcols[i])]
        matches(l) == LET Same(r) == Cell(right, r, ZIP) = Cell(left, l, ZIP)
                      IN  SelectSeq(right.rows, Same)
        joined(l) == IF matches(l) = <<>> THEN <<l \o [i \in 1..Len(rcols) |-> NaN]>>
                     ELSE [j \in 1..Len(matches(l)) |-> l \o rest(matches(l)[j])]
        J[k \in 0..Len(left.rows)] == IF k = 0 THEN <<>> ELSE J[k - 1] \o joined(left.rows[k])
    IN  Table(left.cols \o rcols, J[Len(left.rows)])

\* Float division: NaN when an operand is missing or for 0/0, an infinity <<+-1, 0>>
\* for a division by zero.
divide(x, y) ==
    IF ~notna(x) \/ ~notna(y) THEN NaN
    ELSE IF y[1] = 0 THEN (IF x[1] = 0 THEN NaN ELSE <<(IF x[1] < 0 THEN -1 ELSE 1), 0>>)
    ELSE Frac(x[1] * y[2], x[2] * y[1])

clean_and_merge(zillow_in, income_in, rent_burden_in) ==
    LET slim == select_cols(clean_and_merge_zillow(zillow_in), <<ZIP, MedianRent>>)
        df == merge_left(merge_left(income_in, slim), rent_burden_in)
    IN  Table(df.cols \o <<rent_to_income>>,
              [k \in 1..Len(df.rows) |->
                  df.rows[k] \o <<divide(Cell(df, df.rows[k], MedianRent),
                                         Cell(df, df.rows[k], MonthlyMedianIncome))>>])

-----------------------------------------------------------------------------
\* The files under raw_data/ of a batch run

Washington == <<"W", "a", "s", "h", "i", "n", "g", "t", "o", "n">>
ZctaSeattle == <<"Z", "C", "T", "A", "5", " ", "9", "8", "1", "0", "1">>
ZctaOther == <<"Z", "C", "T", "A", "5", " ", "9", "8", "1", "0", "2">>
Suppressed == <<"-">>
Income72000 == <<"7", "2", "0", "0", "0">>
Count250 == <<"2", "5", "0">>

MaxExtraRows == 1

Without(cs, c) ==
    LET Other(x) == x # c
    IN  SelectSeq(cs, Other)

ZillowMeta ==
    <<RegionID, SizeRank, RegionName, RegionType, StateName, State, City, Metro, CountyName>>

ZillowLayouts ==
    LET full == ZillowMeta \o <<Jan, Feb, Mar>>
    IN  {full, Without(full, Metro), Without(full, RegionName)}

\* zillow_rent.csv: `dups` rows of ZIP 98101 in the Seattle metro, then `extra` rows
\* of ZIP 98102 in metro `metro2`; row r has rent 1000 + 10*r + column, and the
\* first row's February rent is missing when `gap`.
RawZillow(layout, dups, extra, metro2, gap) ==
    Table(layout,
          [r \in 1..(dups + extra) |->
              [c \in 1..Len(layout) |->
                  IF layout[c] = RegionName THEN (IF r <= dups THEN 98101 ELSE 98102)
                  ELSE IF layout[c] = Metro THEN (IF r <= dups THEN MetroSeattle ELSE metro2)
                  ELSE IF ~IsDateCol(layout[c]) THEN Washington
                  ELSE IF gap /\ r = 1 /\ layout[c] = Feb THEN NaN
                  ELSE <<1000 + 10 * r + c>>]])

IncomeLayouts ==
    LET full == <<GEO_ID, ZIP, Metro, HouseholdsMedianIncome>>
    IN  {full, Without(full, HouseholdsMedianIncome)}

\* Income_Breakdown_by_ZIP_Code.csv
RawIncome(layout) ==
    Table(layout,
          [r \in 1..3 |->
              [c \in 1..Len(layout) |->
                  IF layout[c] = ZIP THEN <<98101, 98102, 99201>>[r]
                  ELSE IF layout[c] = Metro THEN <<MetroSeattle, MetroSeattle, MetroSpokane>>[r]
                  ELSE IF layout[c] = HouseholdsMedianIncome
                       THEN <<Income72000, Suppressed, Income72000>>[r]
                  ELSE Washington]])

BurdenLayouts ==
    LET full == <<GEO_ID, NAME>> \o [j \in 1..Len(RENT_BURDEN_RENAME) |-> acs_code(j)]
    IN  {full, Without(full, NAME), Without(full, acs_code(Len(RENT_BURDEN_RENAME)))}

\* acs_rent_burden.csv
RawBurden(layout) ==
    Table(layout,
          [r \in 1..3 |->
              [c \in 1..Len(layout) |->
                  IF layout[c] = NAME THEN <<ZctaSeattle, Washington, ZctaOther>>[r]
                  ELSE IF layout[c] = GEO_ID THEN Washington
                  ELSE IF r = 3 /\ c = Len(layout) - 1 THEN Suppressed
                  ELSE Count250]])

-----------------------------------------------------------------------------
\* The batch run: the module's import-time statement (line 100), then main()

Init ==
    /\ pc = "import"
    /\ \E zl \in ZillowLayouts, dups \in {1, 2, MinHistory - 1, MinHistory},
          extra \in 0..MaxExtraRows, metro2 \in {MetroSeattle, MetroSpokane}, gap \in BOOLEAN,
          il \in IncomeLayouts, bl \in BurdenLayouts :
            raw = [zillow |-> RawZillow(zl, dups, extra, metro2, gap),
                   income |-> RawIncome(il),
                   burden |-> RawBurden(bl)]
    /\ zillow = EmptyTable
    /\ income = EmptyTable
    /\ rent_burden = EmptyTable
    /\ merged = EmptyTable
    /\ long_df = EmptyTable
    /\ forecast_df = EmptyTable
    /\ files = NoFiles
    /\ min_months = DefaultMinMonths
    /\ years = DefaultYears
    /\ calls = <<>>
    /\ fit_calls = <<>>

\* Line 100: df = load_census_rent_burden(), run when the script starts.
module_import ==
    /\ pc = "import"
    /\ calls' = Append(calls, call("load_census_rent_burden", EmptyTable))
    /\ pc' = IF load_census_rent_burden_error(raw.burden) # "none"
             THEN load_census_rent_burden_error(raw.burden)
             ELSE "load_zillow_rent"
    /\ UNCHANGED <<zillow, income, rent_burden, merged, long_df, forecast_df, files,
                   min_months, years, fit_calls, raw>>

\* zillow = load_zillow_rent()
main_load_zillow_rent ==
    /\ pc = "load_zillow_rent"
    /\ calls' = Append(calls, call("load_zillow_rent", EmptyTable))
    /\ IF load_zillow_rent_error(raw.zillow) # "none"
       THEN /\ pc' = load_zillow_rent_error(raw.zillow)
            /\ UNCHANGED zillow
       ELSE /\ pc' = "load_census_income"
            /\ zillow' = load_zillow_rent(raw.zillow)
    /\ UNCHANGED <<income, rent_burden, merged, long_df, forecast_df, files, min_months,
                   years, fit_calls, raw>>

\* income = load_census_income()
main_load_census_income ==
    /\ pc = "load_census_income"
    /\ calls' = Append(calls, call("load_census_income", EmptyTable))
    /\ IF load_census_income_error(raw.income) # "none"
       THEN /\ pc' = load_census_income_error(raw.income)
            /\ UNCHANGED income
       ELSE /\ pc' = "load_census_rent_burden"
            /\ income' = load_census_income(raw.income)
    /\ UNCHANGED <<zillow, rent_burden, merged, long_df, forecast_df, files, min_months,
                   years, fit_calls, raw>>

\* rent_burden = load_census_rent_burden()
main_load_census_rent_burden ==
    /\ pc = "load_census_rent_burden"
    /\ calls' = Append(calls, call("load_census_rent_burden", EmptyTable))
    /\ IF load_census_rent_burden_error(raw.burden) # "none"
       THEN /\ pc' = load_census_rent_burden_error(raw.burden)
            /\ UNCHANGED rent_burden
       ELSE /\ pc' = "clean_and_merge"
            /\ rent_burden' = load_census_rent_burden(raw.burden)
    /\ UNCHANGED <<zillow, income, merged, long_df, forecast_df, files, min_months,
                   years, fit_calls, raw>>

\* merged = clean_and_merge(zillow, income, rent_burden); the MedianRent column is
\* added to the caller's zillow before the column selection that can raise.
main_clean_and_merge ==
    /\ pc = "clean_and_merge"
    /\ calls' = Append(calls, call("clean_and_merge", zillow))
    /\ zillow' = clean_and_merge_zillow(zillow)
    /\ IF clean_and_merge_error(zillow) # "none"
       THEN /\ pc' = clean_and_merge_error(zillow)
            /\ UNCHANGED merged
       ELSE /\ pc' = "save_outputs"
            /\ merged' = clean_and_merge(zillow, income, rent_burden)
    /\ UNCHANGED <<income, rent_burden, long_df, forecast_df, files, min_months, years,
                   fit_calls, raw>>

\* save_outputs(merged)
main_save_outputs ==
    /\ pc = "save_outputs"
    /\ calls' = Append(calls, call("save_outputs", merged))
    /\ files' = write(write(files, "merged_dataset.csv", merged),
                      "affordability_dashboard.csv", merged)
    /\ pc' = "export_to_sql"
    /\ UNCHANGED <<zillow, income, rent_burden, merged, long_df, forecast_df, min_months,
                   years, fit_calls, raw>>

\* export_to_sql(merged, db_type="sqlite")
main_export_to_sql ==
    /\ pc = "export_to_sql"
    /\ calls' = Append(calls, call("export_to_sql", merged))
    /\ files' = write(files, "housing_data", merged)
    /\ pc' = "run_forecast"
    /\ UNCHANGED <<zillow, income, rent_burden, merged, long_df, forecast_df, min_months,
                   years, fit_calls, raw>>

\* run_forecast(zillow)
main_run_forecast ==
    /\ pc = "run_forecast"
    /\ calls' = Append(calls, call("run_forecast", zillow))
    /\ LET error == run_forecast_error(zillow)
           out == run_forecast(zillow, DefaultYears)
       IN  IF error # "none"
           THEN /\ pc' = error
                /\ UNCHANGED <<forecast_df, files, fit_calls>>
           ELSE /\ pc' = "done"
                /\ forecast_df' = out
                /\ files' = write(files, "rent_forecast.csv", out)
                /\ fit_calls' = run_forecast_fits(zillow)
    /\ UNCHANGED <<zillow, income, rent_burden, merged, long_df, min_months, years, raw>>

Next ==
    \/ module_import
    \/ main_load_zillow_rent
    \/ main_load_census_income
    \/ main_load_census_rent_burden
    \/ main_clean_and_merge
    \/ main_save_outputs
    \/ main_export_to_sql
    \/ main_run_forecast

Spec == Init /\ [][Next]_vars

-----------------------------------------------------------------------------
\* Properties of prepare_zillow_timeseries (under SpecCore)

Built == pc \in {"built", "done"}

\* The ZIP codes of a table's rows
Zips(df) == {Cell(df, df.rows[k], ZIP) : k \in 1..Len(df.rows)}

\* The positions of the wide table's columns that match the date pattern and parse.
ParsedCols(df) ==
    {c \in 1..Len(df.cols) : IsDateCol(df.cols[c]) /\ notna(to_datetime(df.cols[c]))}

\* The non-missing rent cells of region z in the wide table, under its parsed columns.
ValidObservations(df, z) ==
    {rc \in (1..Len(df.rows)) \X ParsedCols(df) :
        Cell(df, df.rows[rc[1]], ZIP) = z /\ notna(df.rows[rc[1]][rc[2]])}

\* C1: a region of the wide table is in the output of prepare_zillow_timeseries
\* exactly when it has at least min_months non-missing rents under the columns
\* that parsed as dates, counted before gap-filling.
C1_InclusionThreshold ==
    Built => \A z \in Zips(zillow) :
                 (z \in Zips(long_df)) <=> (Cardinality(ValidObservations(zillow, z)) >= min_months)

\* Both sides of the boundary at once: a region with exactly min_months valid
\* observations, retained, and one with min_months - 1, dropped.
C1_Witness ==
    /\ pc = "built"
    /\ \E z \in Zips(zillow) :
          Cardinality(ValidObservations(zillow, z)) = min_months /\ z \in Zips(long_df)
    /\ \E z \in Zips(zillow) :
          Cardinality(ValidObservations(zillow, z)) = min_months - 1 /\ z \notin Zips(long_df)

\* C2: no row of the table prepare_zillow_timeseries returns has a missing rent.
C2_NoMissingRent ==
    Built => \A k \in 1..Len(long_df.rows) : notna(Cell(long_df, long_df.rows[k], RENT))

\* A retained region whose first observation in table order was missing, so that
\* only the backward fill can have given it a value.
C2_Witness ==
    /\ pc = "built"
    /\ \E z \in Zips(long_df) :
          LET obs == group_rows(long_form(zillow), z)
          IN  ~notna(obs[1][3]) /\ \E i \in 1..Len(obs) : notna(obs[i][3])

\* The rents of region z at period d, in row order, in a long table.
RentsAt(df, z, d) ==
    LET At(r) == Cell(df, r, ZIP) = z /\ Cell(df, r, DATE) = d
        rs == SelectSeq(df.rows, At)
    IN  [i \in 1..Len(rs) |-> Cell(df, rs[i], RENT)]

\* The periods of region z that have a non-missing observation in a long table.
KnownPeriods(df, z) ==
    {Cell(df, df.rows[k], DATE) : k \in {j \in 1..Len(df.rows) :
        Cell(df, df.rows[j], ZIP) = z /\ notna(Cell(df, df.rows[j], RENT))}}

Known(df, z, d) == {v \in Range(RentsAt(df, z, d)) : notna(v)}

\* The values a missing observation of region z at period d may take: those of the
\* most recent earlier period with a known rent, or when there is none those of
\* the nearest later one. (A known rent of a duplicate row of the same period is
\* accepted as well.)
ChronologicalFill(df, z, d) ==
    LET earlier == {e \in KnownPeriods(df, z) : DateLess(e, d)}
        later == {e \in KnownPeriods(df, z) : DateLess(d, e)}
    IN  Known(df, z, d) \cup
        (IF earlier # {}
         THEN Known(df, z, CHOOSE e \in earlier : \A f \in earlier : ~DateLess(e, f))
         ELSE IF later # {}
         THEN Known(df, z, CHOOSE e \in later : \A f \in later : ~DateLess(f, e))
         ELSE {})

\* C3: in the output, an observation that was present keeps its value, and one
\* that was missing holds the value of the chronologically most recent earlier
\* known observation of its region, or of the nearest later one when there is no
\* earlier one, whatever the left-to-right order of the period columns.
C3_ChronologicalFill ==
    Built => \A z \in Zips(long_df) :
                 \A d \in {Cell(long_df, long_df.rows[k], DATE) : k \in 1..Len(long_df.rows)} :
                     LET before == RentsAt(long_form(zillow), z, d)
                         after == RentsAt(long_df, z, d)
                     IN  /\ Len(after) = Len(before)
                         /\ \A i \in 1..Len(before) :
                               IF notna(before[i]) THEN after[i] = before[i]
                               ELSE after[i] \in ChronologicalFill(long_form(zillow), z, d)

-----------------------------------------------------------------------------
\* Properties of run_forecast on the built series (under SpecSeries)

\* The forecast rows of region z, in the forecast table's order.
ForecastOf(z) ==
    LET Of(r) == r[1] = z
    IN  SelectSeq(forecast_df.rows, Of)

\* Months counted from year 0: the calendar month of a timestamp and of a row's
\* year and month columns.
MonthIndex(y, m) == 12 * y + (m - 1)

\* The last observed period of region z in the built series.
LastObserved(z) ==
    LET months == {MonthIndex(Cell(long_df, long_df.rows[k], YEAR), Cell(long_df, long_df.rows[k], MONTH)) :
                      k \in {j \in 1..Len(long_df.rows) : Cell(long_df, long_df.rows[j], ZIP) = z}}
    IN  CHOOSE m \in months : \A o \in months : o <= m

\* The regions run_forecast treats as eligible: 24 rows or more.
Eligible(z) == Len(group_rows(long_df, z)) >= MinHistory

\* C4: an eligible region has exactly 12 * years forecast rows, and their periods
\* are the consecutive calendar months from the month after its last observed one.
C4_HorizonMonths ==
    pc = "done" =>
        \A z \in Zips(long_df) :
            Eligible(z) =>
                /\ Len(ForecastOf(z)) = 12 * years
                /\ \A k \in 1..Len(ForecastOf(z)) :
                      LET d == ForecastOf(z)[k][2]
                      IN  /\ d[2] \in 1..12
                          /\ d[3] = 1
                          /\ MonthIndex(d[1], d[2]) = LastObserved(z) + k

\* A five-year forecast of a series that ends in a December.
C4_Witness ==
    /\ pc = "done"
    /\ years = DefaultYears
    /\ \E z \in Zips(long_df) :
          Eligible(z) /\ LastObserved(z) % 12 = 11 /\ Len(ForecastOf(z)) = 60

\* C5: a region of the built series has forecast rows exactly when it has at least
\* 24 observations, and model.fit never sees fewer than 2 time indices.
C5_HistoryGate ==
    pc = "done" =>
        /\ \A z \in Zips(long_df) : (ForecastOf(z) # <<>>) <=> (Len(group_rows(long_df, z)) >= 24)
        /\ \A z \in Zips(forecast_df) : z \in Zips(long_df)
        /\ \A i \in 1..Len(fit_calls) : fit_calls[i] >= 2

\* A region that passed min_months = 12 with 20-odd observations sits in the built
\* series without a forecast row, next to a region that is forecast.
C5_Witness ==
    /\ pc = "done"
    /\ min_months = 12
    /\ \E z \in Zips(long_df) :
          /\ Len(group_rows(long_df, z)) \in 12..23
          /\ ForecastOf(z) = <<>>
    /\ \E z \in Zips(long_df) : ForecastOf(z) # <<>>

\* The rents of region z in the built series, in its chronological order.
SeriesOf(z) ==
    LET g == group_rows(long_df, z)
    IN  [i \in 1..Len(g) |-> Cell(long_df, g[i], RENT)[1]]

\* The series of z is the line a + b*t over t = 0..n-1.
OnLine(z, a, b) == \A i \in 1..Len(SeriesOf(z)) : SeriesOf(z)[i] = a + b * (i - 1)

\* C9: for an eligible region whose n observations are exactly a + b*t, the k-th
\* forecast row (k from 0) is a + b*(n + k).
C9_LinePrediction ==
    pc = "done" =>
        \A z \in Zips(long_df) :
            LET y == SeriesOf(z)
                n == Len(y)
            IN  (n >= 24 /\ OnLine(z, y[1], y[2] - y[1])) =>
                    /\ ForecastOf(z) # <<>>
                    /\ \A k \in 1..Len(ForecastOf(z)) :
                          ForecastOf(z)[k][3] = <<y[1] + (y[2] - y[1]) * (n + k - 1), 1>>

\* The example of the specification: 100 + 5*t over 30 months.
C9_Witness ==
    /\ pc = "done"
    /\ \E z \in Zips(long_df) :
          /\ Len(SeriesOf(z)) = 30
          /\ OnLine(z, 100, 5)
          /\ ForecastOf(z)[1][3] = <<250, 1>>

-----------------------------------------------------------------------------
\* Properties of the batch run (under Spec)

\* C6: run_forecast is called only after prepare_zillow_timeseries, and with the
\* table that call returned.
C6_ForecastGetsBuiltSeries ==
    \A i \in 1..Len(calls) :
        calls[i].stage = "run_forecast" =>
            \E j \in 1..(i - 1) :
                /\ calls[j].stage = "prepare_zillow_timeseries"
                /\ ~prepare_zillow_timeseries_raises(calls[j].arg)
                /\ calls[i].arg = prepare_zillow_timeseries(calls[j].arg, min_months)

\* C7: when the run stops on a missing column, none of its outputs exists.
C7_NoOutputOnMissingColumn == pc = "KeyError" => files = NoFiles

\* C10: once clean_and_merge has been called, the rent table main holds is still
\* the table it passed in, which is the one load_zillow_rent produced.
C10_StagesLeaveInputUnchanged ==
    \A i \in 1..Len(calls) :
        calls[i].stage = "clean_and_merge" =>
            /\ zillow = calls[i].arg
            /\ zillow = load_zillow_rent(raw.zillow)

====
